---- MODULE Spec2Model ----
(***************************************************************************)
(* A model of coreutils.py: the chain IterReader(iterable)[.sort(params)]  *)
(* [.reduce(transform_class, params)], whose last node (the target) is     *)
(* consumed by list() and len().  The target's __iter__ is a generator: it *)
(* is modelled as a frame (its locals and its position) that advances one  *)
(* loop iteration at a time while it runs and stays put while it is        *)
(* suspended at a yield.                                                   *)
(***************************************************************************)
EXTENDS Integers, Sequences, FiniteSets, TLC

\* ---------------------------------------------------------------- bounds
MaxLen == 3
MaxVal == 3

VARIABLES
    zero_based,       \* the module global _zero_based
    iterable,         \* IterReader.iterable
    presort,          \* TRUE: the chain has a SortChainable before the reduce
    sort_params,      \* the field specs given to sort() and to reduce()
    transform_class,  \* ReduceChainable.transform_class
    target,           \* the node list()/len() are applied to: "source", "sort", "reduce"
    gen,              \* the frame of the current generator of the target's __iter__
    out,              \* the records the consumer has received in this traversal
    first,            \* per indexing base: what the first traversal begun under it returned
    nodes,            \* the nodes built so far, the IterReader first
    built,            \* what the last call of a builder did
    ran,              \* whether a record was ever pulled, a callback ever invoked
    listed,           \* per node, what the last list(node) returned
    obj,              \* a Key or a Cond object, as constructed
    accs,             \* the accessor functions generated from obj so far
    applied,          \* the last call of a generated accessor: its argument and outcome
    verbose,          \* the module global _verbose
    header_records,   \* CsvReader.header_records
    its,              \* two generators made by iter(node), advanced by next()
    shown             \* the last call of show(), head() or count()

vars == <<zero_based, iterable, presort, sort_params, transform_class, target,
          gen, out, first, nodes, built, ran, listed, obj, accs, applied,
          verbose, header_records, its, shown>>

\* ------------------------------------------------------- python values
\* None and a list are told apart by a tag; v is always a sequence.
None == [t |-> "None", v |-> <<>>]
List(s) == [t |-> "list", v |-> s]

\* A record has two fields: a value and the number of its row in the source,
\* which tells apart records of equal value.
Fields == 1..MaxVal

RECURSIVE SeqsUpTo(_, _)
SeqsUpTo(S, n) ==
    IF n = 0 THEN {<<>>}
    ELSE LET shorter == SeqsUpTo(S, n - 1)
         IN  shorter \cup {Append(s, x) : s \in {q \in shorter : Len(q) = n - 1}, x \in S}

Inputs == {[i \in 1..Len(vs) |-> <<vs[i], i>>] : vs \in SeqsUpTo(Fields, MaxLen)}

\* The field specs a chain is built with: integer indexes.
Params == {<<>>, <<0>>, <<1>>, <<2>>, <<1, 2>>}

Classes == {"Uniq", "UniqCount"}

\* ---------------------------------------------------------- list access
\* rec[i] of Python for a resolved offset i: negative offsets count from the end.
InRange(rec, i) == i >= -Len(rec) /\ i < Len(rec)
PyGet(rec, i) == IF i >= 0 THEN rec[i + 1] ELSE rec[Len(rec) + i + 1]

\* a < b for two Python lists of integers.
ListLT(a, b) ==
    \/ \E i \in 1..Len(a) :
          /\ i <= Len(b)
          /\ \A j \in 1..(i - 1) : a[j] = b[j]
          /\ a[i] < b[i]
    \/ /\ Len(a) < Len(b)
       /\ \A j \in 1..Len(a) : a[j] = b[j]

\* ------------------------------------------------------------------ Key
\* Key.__call__: the offsets the generated function closes over.
Key_call(args, zb) ==
    IF ~zb THEN [k \in 1..Len(args) |-> args[k] - 1] ELSE args

\* The function generated by Key.__call__, applied to rec.
Key_func_raises(args, rec) == \E k \in 1..Len(args) : ~InRange(rec, args[k])
Key_func(args, rec) == [k \in 1..Len(args) |-> PyGet(rec, args[k])]

\* ----------------------------------------------------------- aggregators
NoXform == [class |-> "None", context |-> 0]

\* A faulty variant: the counter of a new aggregator starts at one.
Xform_new_one(cls) == [class |-> cls, context |-> 1]

Xform_new(cls) == [class |-> cls, context |-> 0]

Xform_initialize(x, key) ==
    IF x.class = "UniqCount" THEN [x EXCEPT !.context = 0] ELSE x

\* A faulty variant: key_change leaves the counter as it is.
Xform_key_change_keep(x, prev_key, curr_key) == x

Xform_key_change(x, prev_key, curr_key) ==
    IF x.class = "UniqCount" THEN [x EXCEPT !.context = 0] ELSE x

Xform_reduce(x, key, in_rec) ==
    IF x.class = "UniqCount" THEN [x EXCEPT !.context = x.context + 1] ELSE x

Xform_output(x, key, prev_rec) ==
    IF x.class = "UniqCount" THEN <<key, "count", x.context>> ELSE key

\* One entry of the log of callbacks made on the aggregator.
Call(op, a, b) == [op |-> op, a |-> a, b |-> b]

\* ----------------------------------------------------------------- sort
\* The key sorted() orders by: the whole record when sort() got no params.
Sort_key(args, whole, rec) == IF whole THEN rec ELSE Key_func(args, rec)

\* A faulty variant: reverse is ignored.
Sort_before_ascending(kx, ke, reverse) == ListLT(kx, ke)

\* x goes before e in the order sorted() builds.
Sort_before(kx, ke, reverse) == IF reverse THEN ListLT(ke, kx) ELSE ListLT(kx, ke)

\* sorted() is stable: x, the last element, goes after every element it does
\* not go before.
Sort_insert(s, x, args, whole, reverse) ==
    LET kx == Sort_key(args, whole, x)
        before == {i \in 1..Len(s) : Sort_before(kx, Sort_key(args, whole, s[i]), reverse)}
        at == IF before = {} THEN Len(s) + 1
              ELSE CHOOSE i \in before : \A j \in before : i <= j
    IN  SubSeq(s, 1, at - 1) \o <<x>> \o SubSeq(s, at, Len(s))

RECURSIVE Sorted(_, _, _, _)
Sorted(recs, args, whole, reverse) ==
    IF recs = <<>> THEN <<>>
    ELSE Sort_insert(Sorted(SubSeq(recs, 1, Len(recs) - 1), args, whole, reverse),
                     recs[Len(recs)], args, whole, reverse)

\* SortChainable.__iter__ up to its first yield: the sorted buffer, or the
\* IndexError of the key function.
Sort_raises(recs, params, zb) ==
    /\ params # <<>>
    /\ \E i \in 1..Len(recs) : Key_func_raises(Key_call(params, zb), recs[i])

Sort_iter(recs, params, zb) ==
    Sorted(recs, Key_call(params, zb), params = <<>>, FALSE)

\* -------------------------------------------------------------- frames
\* A generator of ReduceChainable.__iter__ that has not run yet.
NewFrame ==
    [pc |-> "created", zb |-> FALSE, repeat |-> FALSE, xform |-> NoXform, key_func |-> <<>>,
     prev_key |-> None, prev_rec |-> None, curr_key |-> None, curr_rec |-> None,
     parent |-> <<>>, pos |-> 0, calls |-> <<>>, yielded |-> None]

IdleFrame == [NewFrame EXCEPT !.pc = "idle"]

\* A faulty variant: prev_key is kept on the node and outlives the generator.
Reduce_iter_leak(f) == [NewFrame EXCEPT !.prev_key = f.prev_key]

\* iter(node): a new generator, with locals of its own.
Reduce_iter(f) == NewFrame

\* The first next(): the locals are set and the parent's iterator is obtained.
Reduce_start(f, cls, params, zb, recs, sorted_first) ==
    LET f1 == [f EXCEPT !.zb = zb,
                        !.repeat = first[zb].seen,
                        !.xform = Xform_new(cls),
                        !.key_func = Key_call(params, zb)]
    IN  IF sorted_first /\ Sort_raises(recs, params, zb)
        THEN [f1 EXCEPT !.pc = "error"]
        ELSE [f1 EXCEPT !.pc = "loop",
                        !.parent = IF sorted_first THEN Sort_iter(recs, params, zb)
                                   ELSE recs]

\* The first next() on a generator of SortChainable.__iter__ (sorted_first) or
\* of IterReader.__iter__: the records it is going to yield.
Pass_start(f, params, zb, recs, sorted_first) ==
    IF sorted_first /\ Sort_raises(recs, params, zb)
    THEN [f EXCEPT !.zb = zb, !.repeat = first[zb].seen, !.pc = "error"]
    ELSE [f EXCEPT !.zb = zb, !.repeat = first[zb].seen, !.pc = "loop",
                   !.parent = IF sorted_first THEN Sort_iter(recs, params, zb)
                              ELSE recs]

\* for rec in ...: yield rec
Pass_body(f) ==
    [f EXCEPT !.pos = f.pos + 1,
              !.yielded = List(f.parent[f.pos + 1]),
              !.pc = "yield_item"]

\* A faulty variant: the first record sets prev_key and initialize is not called.
Reduce_first_noinit(f, curr_key) ==
    IF f.prev_key = None THEN [f EXCEPT !.prev_key = curr_key] ELSE f

\* if prev_key is None: the first record starts the first group.
Reduce_first(f, curr_key) ==
    IF f.prev_key = None
    THEN [f EXCEPT !.prev_key = curr_key,
                   !.xform = Xform_initialize(f.xform, curr_key),
                   !.calls = Append(f.calls, Call("initialize", curr_key, None))]
    ELSE f

\* curr_key == prev_key
Reduce_same(f, curr_key, curr_rec) ==
    [f EXCEPT !.xform = Xform_reduce(f.xform, curr_key, curr_rec),
              !.calls = Append(f.calls, Call("reduce", curr_key, curr_rec)),
              !.prev_rec = curr_rec]

\* A faulty variant: key_change runs before output is computed and yielded.
Reduce_boundary_early(f, curr_key, curr_rec) ==
    LET x == Xform_key_change(f.xform, f.prev_key, curr_key)
    IN  [f EXCEPT !.xform = x,
                  !.yielded = Xform_output(x, f.prev_key, f.prev_rec),
                  !.calls = f.calls \o <<Call("key_change", f.prev_key, curr_key),
                                         Call("output", f.prev_key, f.prev_rec)>>,
                  !.pc = "yield_group"]

\* curr_key > prev_key, up to the yield
Reduce_boundary(f, curr_key, curr_rec) ==
    [f EXCEPT !.yielded = Xform_output(f.xform, f.prev_key, f.prev_rec),
              !.calls = Append(f.calls, Call("output", f.prev_key, f.prev_rec)),
              !.pc = "yield_group"]

\* A faulty variant: the first record of a new group is not reduced.
Reduce_resume_noreduce(f) ==
    [f EXCEPT !.xform = Xform_key_change(f.xform, f.prev_key, f.curr_key),
              !.calls = Append(f.calls, Call("key_change", f.prev_key, f.curr_key)),
              !.prev_key = f.curr_key,
              !.prev_rec = f.curr_rec,
              !.pc = "loop"]

\* curr_key > prev_key, after the yield, and the end of the loop body
Reduce_resume(f) ==
    [f EXCEPT !.xform = Xform_reduce(Xform_key_change(f.xform, f.prev_key, f.curr_key),
                                     f.curr_key, f.curr_rec),
              !.calls = f.calls \o <<Call("key_change", f.prev_key, f.curr_key),
                                     Call("reduce", f.curr_key, f.curr_rec)>>,
              !.prev_key = f.curr_key,
              !.prev_rec = f.curr_rec,
              !.pc = "loop"]

\* A faulty variant: a record of a lesser key is reduced into the group in progress.
Reduce_less_reduces(f, curr_key, curr_rec) == Reduce_same(f, curr_key, curr_rec)

\* curr_key < prev_key: neither branch is taken
Reduce_less(f, curr_key, curr_rec) ==
    [f EXCEPT !.prev_rec = curr_rec]

\* A faulty variant: the boundary test is >= and comes first.
Reduce_branch_ge(prev_key, curr_key) ==
    IF curr_key = prev_key \/ ListLT(prev_key.v, curr_key.v) THEN "greater"
    ELSE "less"

\* Which branch of the loop body a record takes.
Reduce_branch(prev_key, curr_key) ==
    IF curr_key = prev_key THEN "same"
    ELSE IF ListLT(prev_key.v, curr_key.v) THEN "greater"
    ELSE "less"

\* One iteration of the for loop, up to its end or up to the yield in it.
Reduce_body(f, rec) ==
    IF Key_func_raises(f.key_func, rec)
    THEN [f EXCEPT !.pc = "error", !.pos = f.pos + 1, !.curr_rec = List(rec)]
    ELSE LET curr_rec == List(rec)
             curr_key == List(Key_func(f.key_func, rec))
             f1 == [f EXCEPT !.pos = f.pos + 1,
                             !.curr_rec = curr_rec,
                             !.curr_key = curr_key]
             f2 == Reduce_first(f1, curr_key)
             branch == Reduce_branch(f2.prev_key, curr_key)
         IN  IF branch = "same" THEN Reduce_same(f2, curr_key, curr_rec)
             ELSE IF branch = "greater" THEN Reduce_boundary(f2, curr_key, curr_rec)
             ELSE Reduce_less(f2, curr_key, curr_rec)

\* The parent is exhausted: the yield after the loop.
Reduce_final(f) ==
    [f EXCEPT !.yielded = Xform_output(f.xform, f.curr_key, f.curr_rec),
              !.calls = Append(f.calls, Call("output", f.curr_key, f.curr_rec)),
              !.pc = "yield_final"]

\* ------------------------------------------------------------ consumers
\* len(node) is len(list(iter(node))).
Chainable_len(recs) == Len(recs)

\* What list(node) and len(node) hand back once the traversal has ended.
Result(recs, raised) ==
    [raised |-> raised,
     recs |-> IF raised THEN <<>> ELSE recs,
     len |-> IF raised THEN 0 ELSE Chainable_len(recs)]

NoResult == [seen |-> FALSE, res |-> Result(<<>>, FALSE)]

\* The result of a traversal begun under zb is kept if it is the first one.
Remember(zb, res) ==
    IF first[zb].seen THEN first
    ELSE [first EXCEPT ![zb] = [seen |-> TRUE, res |-> res]]

\* ------------------------------------------------------------ accessors
\* A field spec given to Key or Cond: an integer index, a tuple (index, cast),
\* or something that is neither (a field name).
IntSpec(n) == [k |-> "int", i |-> n]
NameSpec == [k |-> "str", i |-> 0]
PairSpec(n) == [k |-> "pair", i |-> n]

\* A field value of 0 stands for None.
IsNone(v) == v = 0

\* The cast of the tuples: operator.neg, which has no value for None.
Cast_raises(v) == IsNone(v)
Cast(v) == 0 - v

\* Key(*args) and Cond(field, op, value), as constructed.
Key_init(args) == [cls |-> "Key", args |-> args, op |-> "none", value |-> 0]
Cond_init(field, op, value) == [cls |-> "Cond", args |-> <<field>>, op |-> op, value |-> value]

\* Key.__call__ under the 1-based setting subtracts one from every spec: the
\* TypeError of `a - 1` when a spec is no number.
Key_call_raises(args, zb) == ~zb /\ \E k \in 1..Len(args) : args[k].k = "str"

\* A faulty variant: the offsets are those of the 1-based setting, whatever the
\* setting is.
Key_call_specs_one(args, zb) ==
    [k \in 1..Len(args) |-> [args[k] EXCEPT !.i = args[k].i - 1]]

\* The specs the function generated by Key.__call__ closes over.
Key_call_specs(args, zb) ==
    LET offsets == Key_call([k \in 1..Len(args) |-> args[k].i], zb)
    IN  [k \in 1..Len(args) |-> [args[k] EXCEPT !.i = offsets[k]]]

\* A faulty variant: the offset is the index as given, whatever the setting.
Cond_get_value_func_asis(item, zb) == item

\* Cond.get_value_func: the item the generated function closes over.
Cond_get_value_func(item, zb) ==
    IF item.k = "int" /\ ~zb THEN IntSpec(item.i - 1) ELSE item

\* A generated accessor function: what it closes over; zb records the setting
\* in force when it was generated.
Closure(cls, zb, raised, args) == [of |-> cls, zb |-> zb, raised |-> raised, args |-> args]

\* obj(), for a Key: Key.__call__; for a Cond: the get_value_func(self.field)
\* of Cond.__call__.
Generate(o, zb) ==
    IF o.cls = "Key"
    THEN IF Key_call_raises(o.args, zb)
         THEN Closure("Key", zb, "TypeError", <<>>)
         ELSE Closure("Key", zb, "", Key_call_specs(o.args, zb))
    ELSE Closure("Cond", zb, "", <<Cond_get_value_func(o.args[1], zb)>>)

\* What a call returns or raises; a scalar and a list are told apart by a tag.
Scalar(v) == [t |-> "value", v |-> <<v>>]
Outcome(raised, value) == [raised |-> raised, value |-> value]

\* The function generated by Key.__call__, applied to rec: the list
\* comprehension fails on the first spec it cannot index rec with.
Key_func_outcome(args, rec) ==
    LET bad == {k \in 1..Len(args) :
                   \/ args[k].k = "str"
                   \/ ~InRange(rec, args[k].i)
                   \/ args[k].k = "pair" /\ Cast_raises(PyGet(rec, args[k].i))}
        k == CHOOSE m \in bad : \A n \in bad : m <= n
        got == Key_func([j \in 1..Len(args) |-> args[j].i], rec)
    IN  IF bad # {}
        THEN Outcome(IF args[k].k = "str" THEN "TypeError"
                     ELSE IF ~InRange(rec, args[k].i) THEN "IndexError"
                     ELSE "TypeError", None)
        ELSE Outcome("", List([j \in 1..Len(args) |->
                                 IF args[j].k = "pair" THEN Cast(got[j]) ELSE got[j]]))

\* The function generated by Cond.get_value_func, applied to rec.
Cond_func_outcome(item, rec) ==
    IF item.k # "int" THEN Outcome("RuntimeError: Can't handle item", None)
    ELSE IF ~InRange(rec, item.i) THEN Outcome("IndexError", None)
    ELSE IF IsNone(PyGet(rec, item.i))
         THEN Outcome("RuntimeError: Attempt to return None from rec", None)
         ELSE Outcome("", Scalar(PyGet(rec, item.i)))

\* A generated accessor called with rec.
Apply(a, rec) ==
    IF a.of = "Key" THEN Key_func_outcome(a.args, rec)
    ELSE Cond_func_outcome(a.args[1], rec)

NoObject == Key_init(<<>>)
NoApplied ==
    [called |-> FALSE, acc |-> Closure("Key", FALSE, "", <<>>), rec |-> <<>>,
     now |-> FALSE, res |-> Outcome("", None)]

\* ---------------------------------------------------------------- nodes
\* A faulty variant: gte is true only of a greater value.
Op_apply_strict(op, a, b) ==
    CASE op = "eq" -> a = b
      [] op = "ne" -> a # b
      [] op = "gt" -> a > b
      [] op = "gte" -> a > b
      [] op = "lt" -> a < b
      [] op = "lte" -> a <= b

\* eq, ne, gt, gte, lt, lte
Op_apply(op, a, b) ==
    CASE op = "eq" -> a = b
      [] op = "ne" -> a # b
      [] op = "gt" -> a > b
      [] op = "gte" -> a >= b
      [] op = "lt" -> a < b
      [] op = "lte" -> a <= b

\* A node of a chain: its class, its parent (an index in the list of the nodes
\* built so far, 0 for None) and the parameters its constructor stores.
Node(kind, parent, key, reverse, filter_inst, transform_item, cls) ==
    [kind |-> kind, parent |-> parent, key |-> key, reverse |-> reverse,
     filter_inst |-> filter_inst, transform_item |-> transform_item,
     transform_class |-> cls]

NoKey == [has |-> FALSE, args |-> <<>>]
KeyInst(args) == [has |-> TRUE, args |-> args]
NoFilter == [type |-> "none", cond |-> NoObject]
NoItem == [type |-> "none", fn |-> "none", args |-> <<>>]

\* IterReader(iterable): the iterable itself is the variable of that name.
IterReader_init == Node("IterReader", 0, NoKey, FALSE, NoFilter, NoItem, "none")

\* What the call of a builder did: the exception it raised ("" for none), the
\* node it returned, and whether it pulled a record or invoked a callback.
Idle == [pulled |-> FALSE, invoked |-> FALSE]
Built(raised, node) == [raised |-> raised, node |-> node, ran |-> Idle]

\* re.compile(regex), for the two patterns the model uses.
re_compile_raises(regex) == regex = "("

\* A faulty variant: the new node is linked to the head of the chain.
Chainable_chain_head(p, new_child) == [new_child EXCEPT !.parent = 1]

\* chain(new_child), on node p: a node comes out of its constructor with no
\* parent.
Chainable_chain(p, new_child) == [new_child EXCEPT !.parent = p]

\* A faulty variant: sort() sorts at once, draining the source for it.
Chainable_sort_eager(p, params, reverse) ==
    [raised |-> "",
     node |-> Chainable_chain(p, Node("SortChainable", 0,
                                      IF params # <<>> THEN KeyInst(params) ELSE NoKey,
                                      reverse, NoFilter, NoItem, "none")),
     ran |-> [pulled |-> TRUE, invoked |-> params # <<>>]]

Chainable_sort(p, params, reverse) ==
    Built("", Chainable_chain(p, Node("SortChainable", 0,
                                      IF params # <<>> THEN KeyInst(params) ELSE NoKey,
                                      reverse, NoFilter, NoItem, "none")))

Chainable_filter(p, field, op, value) ==
    Built("", Chainable_chain(p, Node("FilterChainable", 0, NoKey, FALSE,
                                      [type |-> "Cond", cond |-> Cond_init(field, op, value)],
                                      NoItem, "none")))

\* FilterChainable(filter_inst), made by the caller and handed to chain().
FilterChainable_init(filter_inst) ==
    Node("FilterChainable", 0, NoKey, FALSE, filter_inst, NoItem, "none")

Chainable_grep(p, regex) ==
    IF re_compile_raises(regex) THEN Built("re.error", IterReader_init)
    ELSE Built("", Chainable_chain(p, Node("FilterChainable", 0, NoKey, FALSE,
                                           [type |-> "search", cond |-> NoObject],
                                           NoItem, "none")))

Chainable_transform(p, transform_item) ==
    Built("", Chainable_chain(p, Node("TransformChainable", 0, NoKey, FALSE, NoFilter,
                                      transform_item, "none")))

\* A faulty variant: cut() takes the specs for offsets, whatever the setting.
Chainable_cut_asis(p, cut_params, zb) ==
    IF Key_call_raises(cut_params, zb) THEN Built("TypeError", IterReader_init)
    ELSE Chainable_transform(p, [type |-> "function", fn |-> "key", args |-> cut_params])

\* cut() calls the Key it makes: the node holds the generated function.
Chainable_cut(p, cut_params, zb) ==
    IF Key_call_raises(cut_params, zb) THEN Built("TypeError", IterReader_init)
    ELSE Chainable_transform(p, [type |-> "function", fn |-> "key",
                                 args |-> Key_call_specs(cut_params, zb)])

Chainable_reduce(p, cls, key_params) ==
    Built("", Chainable_chain(p, Node("ReduceChainable", 0, KeyInst(key_params), FALSE,
                                      NoFilter, NoItem, cls)))

\* A call of a builder, as the caller saw it: what it did, on which node, with
\* which field specs, and the setting it read (FALSE when it read none).
Returned(b, p, zb, specs) ==
    [raised |-> b.raised, node |-> b.node, ran |-> b.ran, p |-> p, zb |-> zb, specs |-> specs]

\* ----------------------------------------------------- traversing a node
\* What a traversal of a node hands to its consumer: the records yielded, the
\* exception that ended it ("" when it ended by itself), and whether a
\* record was pulled from the source or a callback invoked on the way.
\* A record is List(fields), or None.
Trav(recs, err, pulled, invoked) ==
    [out |-> recs, err |-> err, pulled |-> pulled, invoked |-> invoked]

\* What a node does with one record: it raises, drops it, or yields rec.
Rec(raised, keep, rec) == [raised |-> raised, keep |-> keep, rec |-> rec]

\* for rec in self.parent, node by node: a record goes through the node as
\* soon as the parent yields it, so the node's first failure ends the
\* traversal before the parent's.
Lazy(up, outcomes) ==
    LET bad == {j \in 1..Len(outcomes) : outcomes[j].raised # ""}
        stop == IF bad = {} THEN Len(outcomes) + 1
                ELSE CHOOSE j \in bad : \A m \in bad : j <= m
        kept == SelectSeq(SubSeq(outcomes, 1, stop - 1), LAMBDA o : o.keep)
    IN  Trav([i \in 1..Len(kept) |-> kept[i].rec],
             IF bad = {} THEN up.err ELSE outcomes[stop].raised,
             up.pulled,
             up.invoked \/ outcomes # <<>>)

\* IterReader.__iter__
IterReader_iter(src) ==
    Trav([i \in 1..Len(src) |-> List(src[i])], "", src # <<>>, FALSE)

\* A faulty variant: a filter that has no function to call lets no record
\* through.
Iter_raises_lenient(node, zb) ==
    CASE node.kind = "SortChainable" ->
           IF node.key.has /\ Key_call_raises(node.key.args, zb) THEN "TypeError" ELSE ""
      [] node.kind = "TransformChainable" ->
           IF node.transform_item.type \in {"function", "Reformat"} THEN ""
           ELSE IF node.transform_item.type = "class"
           THEN "RuntimeError: compatible only with a function or Reformat"
           ELSE "TypeError"
      [] node.kind = "ReduceChainable" ->
           IF Key_call_raises(node.key.args, zb) THEN "TypeError" ELSE ""
      [] OTHER -> ""

\* The exception a node's __iter__ raises before it asks its parent for a
\* record, "" when there is none.  A transform item is a function, the class
\* Reformat or a subclass of it ("Reformat"), another class ("class"), or
\* something that is no class: an instance of Reformat ("instance"), a
\* built-in function ("builtin"), for which issubclass() raises a TypeError.
Iter_raises(node, zb) ==
    CASE node.kind = "SortChainable" ->
           IF node.key.has /\ Key_call_raises(node.key.args, zb) THEN "TypeError" ELSE ""
      [] node.kind = "FilterChainable" ->
           IF node.filter_inst.type \in {"Cond", "search"} THEN ""
           ELSE "RuntimeError: only works with a Cond instance or re.compile.search"
      [] node.kind = "TransformChainable" ->
           IF node.transform_item.type \in {"function", "Reformat"} THEN ""
           ELSE IF node.transform_item.type = "class"
           THEN "RuntimeError: compatible only with a function or Reformat"
           ELSE "TypeError"
      [] node.kind = "ReduceChainable" ->
           IF Key_call_raises(node.key.args, zb) THEN "TypeError" ELSE ""
      [] OTHER -> ""

\* A faulty variant: the function is true of every record it can read.
Cond_func_true(cond, item, rec) ==
    IF item.k = "int" /\ rec = None THEN Rec("TypeError", FALSE, None)
    ELSE LET got == Cond_func_outcome(item, rec.v)
         IN  IF got.raised # "" THEN Rec(got.raised, FALSE, None)
             ELSE Rec("", TRUE, rec)

\* The function generated by Cond.__call__, applied to a record.
Cond_func(cond, item, rec) ==
    IF item.k = "int" /\ rec = None THEN Rec("TypeError", FALSE, None)
    ELSE LET got == Cond_func_outcome(item, rec.v)
         IN  IF got.raised # "" THEN Rec(got.raised, FALSE, None)
             ELSE Rec("", Op_apply(cond.op, got.value.v[1], cond.value), rec)

\* FilterChainable.__iter__ once it has its filter_func: filter() keeps the
\* records the function is true of.  A compiled pattern's search() takes a
\* string: every record here is a list.
FilterChainable_iter(node, up, zb) ==
    LET cond == node.filter_inst.cond
        item == Cond_get_value_func(cond.args[1], zb)
    IN  Lazy(up, [j \in 1..Len(up.out) |->
                    IF node.filter_inst.type = "Cond" THEN Cond_func(cond, item, up.out[j])
                    ELSE Rec("TypeError", FALSE, None)])

\* xform(rec), for the function cut() made, for a function that reverses the
\* fields, for one that divides by zero, and for Reformat.transform.
Xform_apply(transform_item, rec) ==
    IF transform_item.type = "Reformat" THEN Rec("", TRUE, rec)
    ELSE IF transform_item.fn = "div" THEN Rec("ZeroDivisionError", FALSE, None)
    ELSE IF rec = None /\ (transform_item.fn # "key" \/ transform_item.args # <<>>)
    THEN Rec("TypeError", FALSE, None)
    ELSE IF transform_item.fn = "key"
    THEN LET got == Key_func_outcome(transform_item.args, rec.v)
         IN  IF got.raised # "" THEN Rec(got.raised, FALSE, None)
             ELSE Rec("", TRUE, got.value)
    ELSE Rec("", TRUE, List([i \in 1..Len(rec.v) |-> rec.v[Len(rec.v) + 1 - i]]))

\* TransformChainable.__iter__ once it has its xform.
TransformChainable_iter(node, up) ==
    Lazy(up, [j \in 1..Len(up.out) |-> Xform_apply(node.transform_item, up.out[j])])

\* The plain indexes of a list of integer specs.
Indexes(args) == [k \in 1..Len(args) |-> args[k].i]

\* SortChainable.__iter__ once it has its key: sorted() drains the parent,
\* computes the key of every record, and sorts.
SortChainable_iter(node, up, zb) ==
    LET args == IF node.key.has THEN Key_call_specs(node.key.args, zb) ELSE <<>>
        keys == [j \in 1..Len(up.out) |->
                   IF up.out[j] = None
                   THEN Rec(IF node.key.has \/ Len(up.out) > 1 THEN "TypeError" ELSE "",
                            TRUE, None)
                   ELSE IF node.key.has
                   THEN Rec(Key_func_outcome(args, up.out[j].v).raised, TRUE, up.out[j])
                   ELSE Rec("", TRUE, up.out[j])]
        bad == {j \in 1..Len(keys) : keys[j].raised # ""}
        called == up.invoked \/ (node.key.has /\ up.out # <<>>)
    IN  IF up.err # "" THEN Trav(<<>>, up.err, up.pulled, up.invoked)
        ELSE IF bad # {}
        THEN Trav(<<>>, keys[CHOOSE j \in bad : \A m \in bad : j <= m].raised,
                  up.pulled, called)
        ELSE IF up.out = <<None>> THEN Trav(up.out, "", up.pulled, called)
        ELSE LET sorted == Sorted([j \in 1..Len(up.out) |-> up.out[j].v],
                                  Indexes(args), ~node.key.has, node.reverse)
             IN  Trav([j \in 1..Len(sorted) |-> List(sorted[j])], "", up.pulled, called)

\* list() of a generator of ReduceChainable.__iter__ that has started: the
\* frame is run to its end.  tail is the exception that the parent, or the
\* key function on the record after the last of f.parent, ends the loop with.
RECURSIVE Reduce_drain(_, _, _)
Reduce_drain(f, got, tail) ==
    IF f.pc = "error" THEN [out |-> got, err |-> "IndexError"]
    ELSE IF f.pc = "yield_group"
    THEN Reduce_drain(Reduce_resume(f), Append(got, f.yielded), tail)
    ELSE IF f.pc = "yield_final" THEN [out |-> Append(got, f.yielded), err |-> ""]
    ELSE IF f.pos < Len(f.parent)
    THEN Reduce_drain(Reduce_body(f, f.parent[f.pos + 1]), got, tail)
    ELSE IF tail # "" THEN [out |-> got, err |-> tail]
    ELSE Reduce_drain(Reduce_final(f), got, tail)

\* ReduceChainable.__iter__ once it has its xform and key_func.
ReduceChainable_iter(node, up, zb) ==
    LET args == Key_call_specs(node.key.args, zb)
        \* the records the key function fails on with a TypeError
        odd == {j \in 1..Len(up.out) :
                   \/ \E k \in 1..Len(args) : args[k].k # "int"
                   \/ up.out[j] = None /\ args # <<>>}
        upto == IF odd = {} THEN Len(up.out)
                ELSE (CHOOSE j \in odd : \A m \in odd : j <= m) - 1
        f == Reduce_start(NewFrame, node.transform_class, Indexes(node.key.args), zb,
                          [j \in 1..upto |-> up.out[j].v], FALSE)
        run == Reduce_drain(f, <<>>, IF odd = {} THEN up.err ELSE "TypeError")
    IN  Trav([i \in 1..Len(run.out) |->
                IF node.transform_class = "UniqCount" THEN List(run.out[i]) ELSE run.out[i]],
             run.err, up.pulled, up.invoked \/ up.out # <<>> \/ up.err = "")

\* iter(node) run to its end: the node's __iter__ over the traversal of its
\* parent, which begins when the node asks for its first record.
RECURSIVE Chainable_iter(_, _, _, _)
Chainable_iter(h, n, src, zb) ==
    IF h[n].kind = "IterReader" THEN IterReader_iter(src)
    ELSE IF Iter_raises(h[n], zb) # "" THEN Trav(<<>>, Iter_raises(h[n], zb), FALSE, FALSE)
    ELSE LET up == Chainable_iter(h, h[n].parent, src, zb)
         IN  CASE h[n].kind = "SortChainable" -> SortChainable_iter(h[n], up, zb)
               [] h[n].kind = "FilterChainable" -> FilterChainable_iter(h[n], up, zb)
               [] h[n].kind = "TransformChainable" -> TransformChainable_iter(h[n], up)
               [] h[n].kind = "ReduceChainable" -> ReduceChainable_iter(h[n], up, zb)

\* list(node), given the traversal t it makes: the list of the records, or
\* the exception.
Chainable_list(t, zb) ==
    [listed |-> TRUE, zb |-> zb, raised |-> t.err,
     recs |-> IF t.err = "" THEN t.out ELSE <<>>]

NotListed == [listed |-> FALSE, zb |-> FALSE, raised |-> "", recs |-> <<>>]
NoBuilt == Returned(Built("", IterReader_init), 0, FALSE, <<>>)

\* ------------------------------------------------- generators, step by step
\* A line of a file, as FileReader yields it: a string, not a list.
Str(s) == [t |-> "str", v |-> s]

\* FileReader(filename) and CsvReader(filename): the records of the file are
\* the variable iterable; the file of a CsvReader has one header line before
\* them (headers is 1).
FileReader_init == Node("FileReader", 0, NoKey, FALSE, NoFilter, NoItem, "none")
CsvReader_init == Node("CsvReader", 0, NoKey, FALSE, NoFilter, NoItem, "none")

\* prep_record: FileReader strips the line, CsvReader splits it in fields.
Source_rec(kind, row) == IF kind = "FileReader" THEN Str(row) ELSE List(row)

\* The handle fp of a source's generator: open() at its first next(),
\* fp.close() once its loop has ended.  An IterReader has none.
Source_open(kind) == IF kind = "IterReader" THEN "none" ELSE "open"
Source_close(kind) == IF kind = "IterReader" THEN "none" ELSE "closed"

\* CsvReader.__iter__ keeps the header line the first time it runs.
Csv_headers(kind, kept) ==
    IF kind = "CsvReader" /\ kept = <<>> THEN <<"header">> ELSE kept

\* iter(node): the generator of node n over the generator of its parent, the
\* source.  st is "created" until the first next(), "suspended" at a yield,
\* then "done" or "error"; "abandoned" once its consumer has let go of it and
\* "collected" once it has been finalized.  pos counts the records pulled
\* from the source, got is what the consumer received, fp the source's
\* handle, f the frame of a ReduceChainable.
NewIt(n) ==
    [n |-> n, st |-> "created", zb |-> FALSE, pos |-> 0, fp |-> "none", f |-> IdleFrame,
     got |-> <<>>, err |-> ""]
NoIt == [NewIt(0) EXCEPT !.st = "none"]

\* What a reduce node yields: output() of Uniq is the key, of UniqCount a list.
Yielded(cls, y) == IF cls = "UniqCount" THEN List(y) ELSE y

It_yield(t, rec) == [t EXCEPT !.got = Append(t.got, rec), !.st = "suspended"]
It_raise(t, err) == [t EXCEPT !.st = "error", !.err = err]

\* A faulty variant: filter() reads one record ahead of the one it hands on.
It_filtered_ahead(t, r, size) ==
    IF r.raised # "" THEN It_raise(t, r.raised)
    ELSE IF r.keep
    THEN It_yield([t EXCEPT !.pos = IF t.pos < size THEN t.pos + 1 ELSE t.pos], r.rec)
    ELSE t

\* What filter() does with the outcome r of the function on a record: the
\* exception goes to the consumer, a record it is true of is handed on, and
\* for any other the loop goes on (st is unchanged).
It_filtered(t, r, size) ==
    IF r.raised # "" THEN It_raise(t, r.raised)
    ELSE IF r.keep THEN It_yield(t, r.rec)
    ELSE t

\* A faulty variant: the generators of a source share one position.
It_pos_shared(t) ==
    LET ahead == IF its[1].pos > its[2].pos THEN its[1].pos ELSE its[2].pos
    IN  IF t.pos > ahead THEN t.pos ELSE ahead

\* Where the source's generator of t is in the source: every generator has a
\* loop, and a position, of its own.
It_pos(t) == t.pos

\* The generator runs until its next yield, its end or an exception: it asks
\* the source for a record; the source's loop ends and closes the handle, or
\* yields the next record to the node.
RECURSIVE It_run(_, _, _)
It_run(t, h, src) ==
    LET node == h[t.n]
        kind == h[1].kind
    IN  IF It_pos(t) = Len(src)
        THEN LET t1 == [t EXCEPT !.fp = Source_close(kind)]
             IN  IF node.kind = "ReduceChainable"
                 THEN LET f1 == Reduce_final(t.f)
                      IN  It_yield([t1 EXCEPT !.f = f1],
                                   Yielded(node.transform_class, f1.yielded))
                 ELSE [t1 EXCEPT !.st = "done"]
        ELSE LET rec == Source_rec(kind, src[It_pos(t) + 1])
                 t1 == [t EXCEPT !.pos = It_pos(t) + 1, !.fp = Source_open(kind)]
             IN  CASE node.kind = "TransformChainable" ->
                        LET r == Xform_apply(node.transform_item, rec)
                        IN  IF r.raised # "" THEN It_raise(t1, r.raised)
                            ELSE It_yield(t1, r.rec)
                   [] node.kind = "FilterChainable" ->
                        LET cond == node.filter_inst.cond
                            item == Cond_get_value_func(cond.args[1], t.zb)
                            t2 == It_filtered(t1, Cond_func(cond, item, rec), Len(src))
                        IN  IF t2.st = t1.st THEN It_run(t2, h, src) ELSE t2
                   [] node.kind = "ReduceChainable" ->
                        LET f1 == Reduce_body(t.f, src[It_pos(t) + 1])
                            t2 == [t1 EXCEPT !.f = f1]
                        IN  IF f1.pc = "error" THEN It_raise(t2, "IndexError")
                            ELSE IF f1.pc = "yield_group"
                            THEN It_yield(t2, Yielded(node.transform_class, f1.yielded))
                            ELSE It_run(t2, h, src)
                   [] OTHER -> It_yield(t1, rec)

\* next() on the generator t.
It_next(t, h, src, zb) ==
    LET node == h[t.n]
    IN  IF t.st = "created"
        THEN IF Iter_raises(node, zb) # "" THEN It_raise(t, Iter_raises(node, zb))
             ELSE It_run([t EXCEPT !.st = "running", !.zb = zb,
                                   !.f = IF node.kind = "ReduceChainable"
                                         THEN Reduce_start(NewFrame, node.transform_class,
                                                           Indexes(node.key.args), zb, src,
                                                           FALSE)
                                         ELSE t.f],
                         h, src)
        ELSE IF node.kind = "ReduceChainable" /\ t.f.pc = "yield_final"
        THEN [t EXCEPT !.st = "done", !.f = [t.f EXCEPT !.pc = "done"]]
        ELSE IF node.kind = "ReduceChainable" /\ t.f.pc = "yield_group"
        THEN It_run([t EXCEPT !.st = "running", !.f = Reduce_resume(t.f)], h, src)
        ELSE It_run([t EXCEPT !.st = "running"], h, src)

\* The consumer lets go of the generator, which stays where it is.
It_abandon(t) == [t EXCEPT !.st = "abandoned"]

\* The generator is finalized: nothing refers to the source's file object
\* any more, and its finalizer closes the handle.
It_collect(t) ==
    [t EXCEPT !.st = "collected", !.fp = IF t.fp = "open" THEN "closed" ELSE t.fp]

\* A faulty variant: the loop has no break.
RECURSIVE It_take_all(_, _, _, _, _)
It_take_all(t, h, src, zb, limit) ==
    IF t.st \in {"done", "error"} THEN t
    ELSE It_take_all(It_next(t, h, src, zb), h, src, zb, limit)

\* for rec in node, left by a break once limit records were received; a limit
\* of -1 is none.
RECURSIVE It_take(_, _, _, _, _)
It_take(t, h, src, zb, limit) ==
    IF t.st \in {"done", "error"} THEN t
    ELSE IF Len(t.got) = limit THEN It_abandon(t)
    ELSE It_take(It_next(t, h, src, zb), h, src, zb, limit)

\* head() prints the first records: its loop breaks when i == 4.
HeadLimit == 5

\* What a call of show(), head() or count() did: whether it ran under
\* _verbose, what it gave to print_function, and whether it returned self.
Shown(op, n, v, printed, returned) ==
    [op |-> op, n |-> n, verbose |-> v, printed |-> printed, returned |-> returned]
NoShown == Shown("none", 0, FALSE, <<>>, FALSE)

\* The traversal show(), head() and count() make of node n.
Chainable_show(n, h, src, zb) == It_take(NewIt(n), h, src, zb, -1)
Chainable_head(n, h, src, zb) == It_take(NewIt(n), h, src, zb, HeadLimit)
Chainable_count(n, h, src, zb) == It_take(NewIt(n), h, src, zb, -1)

\* ---------------------------------------------------------------- state
Init ==
    /\ zero_based = FALSE
    /\ iterable \in Inputs
    /\ presort \in BOOLEAN
    /\ sort_params \in Params
    /\ transform_class \in Classes
    /\ target \in {"source", "sort", "reduce"}
    /\ target = "source" => ~presort /\ sort_params = <<>>
    /\ target = "sort" => presort
    /\ target # "reduce" => transform_class = "Uniq"
    /\ gen = IdleFrame
    /\ out = <<>>
    /\ first = [zb \in BOOLEAN |-> NoResult]
    /\ nodes = <<>>
    /\ built = NoBuilt
    /\ ran = Idle
    /\ listed = <<>>
    /\ obj = NoObject
    /\ accs = {}
    /\ applied = NoApplied
    /\ verbose = TRUE
    /\ header_records = <<>>
    /\ its = <<NoIt, NoIt>>
    /\ shown = NoShown

\* The generators advanced by next() and the calls of show(), head() and
\* count(), which only the last specifications have.
stepping == <<verbose, header_records, its, shown>>

NoStepping ==
    /\ verbose = TRUE
    /\ header_records = <<>>
    /\ its = <<NoIt, NoIt>>
    /\ shown = NoShown

\* What traversing the chain leaves alone: the chain itself, and the objects
\* that are no part of it.
chain == <<iterable, presort, sort_params, transform_class, target,
           nodes, built, ran, listed, obj, accs, applied, stepping>>

\* set_zero_based(b), called by the code that drives the chain: it runs only
\* while no generator is running.
SetZeroBased(b) ==
    /\ gen.pc # "loop"
    /\ zero_based' = b
    /\ UNCHANGED <<chain, gen, out, first>>

\* list(node) or len(node) begins: iter(node) makes a new generator.
Iter ==
    /\ gen.pc \in {"idle", "done", "error"}
    /\ gen' = IF target = "reduce" THEN Reduce_iter(gen) ELSE NewFrame
    /\ out' = <<>>
    /\ UNCHANGED <<zero_based, chain, first>>

\* The exception of a generator reaches the caller of list()/len().
Raised(f) ==
    IF f.pc = "error" THEN Remember(f.zb, Result(out, TRUE)) ELSE first

\* The first next() on the generator.
Start ==
    /\ gen.pc = "created"
    /\ gen' = IF target = "reduce"
              THEN Reduce_start(gen, transform_class, sort_params, zero_based,
                                iterable, presort)
              ELSE Pass_start(gen, sort_params, zero_based, iterable, presort)
    /\ first' = Raised(gen')
    /\ UNCHANGED <<zero_based, chain, out>>

\* The running generator of a sort node or of the source yields a record.
Pass ==
    /\ target # "reduce"
    /\ gen.pc = "loop"
    /\ gen.pos < Len(gen.parent)
    /\ gen' = Pass_body(gen)
    /\ out' = Append(out, gen'.yielded)
    /\ UNCHANGED <<zero_based, chain, first>>

\* next() on that generator, suspended at its yield.
PassResume ==
    /\ gen.pc = "yield_item"
    /\ gen' = [gen EXCEPT !.pc = "loop"]
    /\ UNCHANGED <<zero_based, chain, out, first>>

\* That generator has no record left: it returns.
PassEnd ==
    /\ target # "reduce"
    /\ gen.pc = "loop"
    /\ gen.pos = Len(gen.parent)
    /\ gen' = [gen EXCEPT !.pc = "done"]
    /\ first' = Remember(gen.zb, Result(out, FALSE))
    /\ UNCHANGED <<zero_based, chain, out>>

\* The running generator of the reduce node pulls the next record of its parent.
Loop ==
    /\ target = "reduce"
    /\ gen.pc = "loop"
    /\ gen.pos < Len(gen.parent)
    /\ gen' = Reduce_body(gen, gen.parent[gen.pos + 1])
    /\ out' = IF gen'.pc = "yield_group" THEN Append(out, gen'.yielded) ELSE out
    /\ first' = Raised(gen')
    /\ UNCHANGED <<zero_based, chain>>

\* The parent raises StopIteration: the final yield.
Exhausted ==
    /\ target = "reduce"
    /\ gen.pc = "loop"
    /\ gen.pos = Len(gen.parent)
    /\ gen' = Reduce_final(gen)
    /\ out' = Append(out, gen'.yielded)
    /\ UNCHANGED <<zero_based, chain, first>>

\* next() on the generator suspended at the yield of a group boundary.
Resume ==
    /\ gen.pc = "yield_group"
    /\ gen' = Reduce_resume(gen)
    /\ UNCHANGED <<zero_based, chain, out, first>>

\* next() on the generator suspended at the final yield: it returns.
Finish ==
    /\ gen.pc = "yield_final"
    /\ gen' = [gen EXCEPT !.pc = "done"]
    /\ first' = Remember(gen.zb, Result(out, FALSE))
    /\ UNCHANGED <<zero_based, chain, out>>

Next ==
    \/ \E b \in BOOLEAN : SetZeroBased(b)
    \/ Iter
    \/ Start
    \/ Pass
    \/ PassResume
    \/ PassEnd
    \/ Loop
    \/ Exhausted
    \/ Resume
    \/ Finish

Spec == Init /\ [][Next]_vars

\* ------------------------------------------- generating and calling accessors
\* A second specification: a Key or a Cond object is constructed, accessor
\* functions are generated from it under the setting of the moment, and the
\* generated functions are called.

\* The variables of the traversal, which this specification leaves alone.
traversal_of_target == <<presort, sort_params, transform_class, target, gen, out, first>>
traversal ==
    <<iterable, presort, sort_params, transform_class, target, gen, out, first, stepping>>

\* The variables of building and listing chains, which it leaves alone too.
building == <<nodes, built, ran, listed>>

NoBuilding ==
    /\ nodes = <<>>
    /\ built = NoBuilt
    /\ ran = Idle
    /\ listed = <<>>

NoGenerator ==
    /\ presort = FALSE
    /\ sort_params = <<>>
    /\ transform_class = "Uniq"
    /\ target = "source"
    /\ gen = IdleFrame
    /\ out = <<>>
    /\ first = [zb \in BOOLEAN |-> NoResult]
    /\ NoStepping

NoTraversal == iterable = <<>> /\ NoGenerator

Ops == {"eq", "ne", "gt", "gte", "lt", "lte"}

KeyArgs ==
    {<<>>, <<IntSpec(0)>>, <<IntSpec(1)>>, <<IntSpec(2)>>, <<IntSpec(3)>>,
     <<IntSpec(2), IntSpec(1)>>, <<NameSpec>>, <<IntSpec(1), NameSpec>>,
     <<PairSpec(1)>>, <<PairSpec(2), IntSpec(1)>>}

CondFields == {IntSpec(0), IntSpec(1), IntSpec(2), IntSpec(3), NameSpec, PairSpec(1)}

Objects ==
    {Key_init(args) : args \in KeyArgs}
    \cup {Cond_init(f, op, v) : f \in CondFields, op \in Ops, v \in Fields}

\* The records accessors are called with: two fields, each a value or None.
AccessRecs == [1..2 -> {0} \cup Fields]

InitAccess ==
    /\ zero_based = FALSE
    /\ obj \in Objects
    /\ accs = {}
    /\ applied = NoApplied
    /\ NoTraversal
    /\ NoBuilding

\* obj() is called: one more generated function.
GenerateAccessor ==
    /\ accs' = accs \cup {Generate(obj, zero_based)}
    /\ UNCHANGED <<zero_based, traversal, building, obj, applied>>

\* A generated function is called with a record.
CallAccessor(a, rec) ==
    /\ a \in accs
    /\ a.raised = ""
    /\ applied' = [called |-> TRUE, acc |-> a, rec |-> rec, now |-> zero_based,
                   res |-> Apply(a, rec)]
    /\ UNCHANGED <<zero_based, traversal, building, obj, accs>>

NextAccess ==
    \/ \E b \in BOOLEAN : SetZeroBased(b)
    \/ GenerateAccessor
    \/ \E a \in accs, rec \in AccessRecs : CallAccessor(a, rec)

SpecAccess == InitAccess /\ [][NextAccess]_vars

\* ------------------------------------------------ building and listing chains
\* Three more specifications: nodes are built on an IterReader by the builder
\* methods, the setting is chosen, and the ends of the chains are listed by
\* list().  The first builds any chain of up to MaxNodes nodes out of a few
\* calls of every builder over two inputs; the second builds one sort or one
\* cut, the third one or two filters, with every parameter over every input.

access == <<obj, accs, applied>>

NoAccess ==
    /\ obj = NoObject
    /\ accs = {}
    /\ applied = NoApplied

\* A builder returns: the node it made joins the nodes built so far; when it
\* raised, there is no new node.  The chains are built before they are listed.
Return(b, p, zb, specs) ==
    /\ \A n \in 1..Len(listed) : ~listed[n].listed
    /\ built' = Returned(b, p, zb, specs)
    /\ nodes' = IF b.raised = "" THEN Append(nodes, b.node) ELSE nodes
    /\ listed' = IF b.raised = "" THEN Append(listed, NotListed) ELSE listed
    /\ ran' = [pulled |-> ran.pulled \/ b.ran.pulled,
               invoked |-> ran.invoked \/ b.ran.invoked]
    /\ UNCHANGED <<zero_based, traversal, access>>

BuildSort(p, params, reverse) ==
    Return(Chainable_sort(p, params, reverse), p, FALSE, params)
BuildFilter(p, field, op, value) ==
    Return(Chainable_filter(p, field, op, value), p, FALSE, <<field>>)
BuildGrep(p, regex) == Return(Chainable_grep(p, regex), p, FALSE, <<>>)
BuildTransform(p, item) == Return(Chainable_transform(p, item), p, FALSE, <<>>)
BuildCut(p, params) == Return(Chainable_cut(p, params, zero_based), p, zero_based, params)
BuildReduce(p, cls, params) == Return(Chainable_reduce(p, cls, params), p, FALSE, params)

\* A node no other node has for its parent.
Leaf(n) == \A m \in 1..Len(nodes) : nodes[m].parent # n

\* list(node), for the last node of a chain.
ListNode(n) ==
    /\ n > 1
    /\ Leaf(n)
    /\ LET t == Chainable_iter(nodes, n, iterable, zero_based)
       IN  /\ listed' = [listed EXCEPT ![n] = Chainable_list(t, zero_based)]
           /\ ran' = [pulled |-> ran.pulled \/ t.pulled,
                      invoked |-> ran.invoked \/ t.invoked]
    /\ UNCHANGED <<zero_based, traversal, access, nodes, built>>

InitNodes ==
    /\ zero_based = FALSE
    /\ nodes = <<IterReader_init>>
    /\ listed = <<NotListed>>
    /\ built = NoBuilt
    /\ ran = Idle
    /\ NoGenerator
    /\ NoAccess

\* -- any chain, a few parameters
MaxNodes == 3

\* Two inputs: no record, and MaxLen records <<1, 1>>, <<2, 2>>, ...
BuildInputs == {in \in Inputs : Len(in) \in {0, MaxLen} /\ \A i \in 1..Len(in) : in[i][1] = i}

BuildSorts == {<<<<IntSpec(1)>>, TRUE>>, <<<<NameSpec>>, FALSE>>}
BuildConds == {<<IntSpec(1), "gte", 2>>, <<NameSpec, "eq", 1>>}
BuildPatterns == {"a", "("}
BuildItems ==
    {[type |-> "function", fn |-> "reversed", args |-> <<>>],
     [type |-> "Reformat", fn |-> "none", args |-> <<>>],
     [type |-> "class", fn |-> "none", args |-> <<>>]}
BuildCuts == {<<IntSpec(1)>>, <<NameSpec>>}
BuildKeys == {<<IntSpec(1)>>}

InitBuild == iterable \in BuildInputs /\ InitNodes

\* Nothing has been listed yet: the setting is chosen before the chains are
\* listed.
Unlisted == \A n \in 1..Len(listed) : ~listed[n].listed

NextBuild ==
    \/ \E b \in BOOLEAN : Unlisted /\ SetZeroBased(b)
    \/ \E p \in 1..Len(nodes), c \in BuildSorts :
          Len(nodes) < MaxNodes /\ BuildSort(p, c[1], c[2])
    \/ \E p \in 1..Len(nodes), c \in BuildConds :
          Len(nodes) < MaxNodes /\ BuildFilter(p, c[1], c[2], c[3])
    \/ \E p \in 1..Len(nodes), regex \in BuildPatterns :
          Len(nodes) < MaxNodes /\ BuildGrep(p, regex)
    \/ \E p \in 1..Len(nodes), item \in BuildItems :
          Len(nodes) < MaxNodes /\ BuildTransform(p, item)
    \/ \E p \in 1..Len(nodes), params \in BuildCuts :
          Len(nodes) < MaxNodes /\ BuildCut(p, params)
    \/ \E p \in 1..Len(nodes), params \in BuildKeys :
          Len(nodes) < MaxNodes /\ BuildReduce(p, "Uniq", params)
    \/ \E n \in 1..Len(nodes) : ListNode(n)

SpecBuild == InitBuild /\ [][NextBuild]_vars

\* -- one sort or one cut; every parameter, every input
PipeKeys == {<<>>, <<IntSpec(1)>>, <<IntSpec(2)>>, <<IntSpec(1), IntSpec(2)>>}
PipeCuts == {<<>>, <<IntSpec(1)>>, <<IntSpec(2)>>, <<IntSpec(2), IntSpec(1)>>}

InitPipe == iterable \in Inputs /\ InitNodes

NextPipe ==
    \/ \E b \in BOOLEAN : Unlisted /\ SetZeroBased(b)
    \/ \E params \in PipeKeys, reverse \in BOOLEAN :
          Len(nodes) = 1 /\ BuildSort(1, params, reverse)
    \/ \E params \in PipeCuts :
          Len(nodes) = 1 /\ BuildCut(1, params)
    \/ \E n \in 1..Len(nodes) : ListNode(n)

SpecPipe == InitPipe /\ [][NextPipe]_vars

\* -- one or two filters; every parameter, every input
PipeFields == {IntSpec(1), IntSpec(2)}

Complement(op) ==
    CASE op = "eq" -> "ne"
      [] op = "ne" -> "eq"
      [] op = "lt" -> "gte"
      [] op = "gte" -> "lt"
      [] op = "gt" -> "lte"
      [] op = "lte" -> "gt"

\* The filters built: one on the source; then either one on that filter,
\* an eq or a gt with the same constant, or the complement of that filter on
\* the source.
FilterOn(p, field, op, value) ==
    \/ Len(nodes) = 1 /\ p = 1
    \/ /\ Len(nodes) = 2
       /\ value = nodes[2].filter_inst.cond.value
       /\ \/ p = 2 /\ op \in {"eq", "gt"}
          \/ /\ p = 1
             /\ <<field>> = nodes[2].filter_inst.cond.args
             /\ op = Complement(nodes[2].filter_inst.cond.op)

NextFilter ==
    \/ \E b \in BOOLEAN : Unlisted /\ SetZeroBased(b)
    \/ \E p \in 1..Len(nodes), field \in PipeFields, op \in Ops, value \in Fields :
          FilterOn(p, field, op, value) /\ BuildFilter(p, field, op, value)
    \/ \E n \in 1..Len(nodes) : ListNode(n)

SpecFilter == InitPipe /\ [][NextFilter]_vars

\* -- nodes given something they cannot use; every input
\* The transform items: a function, Reformat, another class, an instance of
\* Reformat, a built-in function.
RejectItems ==
    BuildItems
    \cup {[type |-> "instance", fn |-> "none", args |-> <<>>],
          [type |-> "builtin", fn |-> "none", args |-> <<>>]}

\* What a FilterChainable is constructed with: object(), or the search of a
\* compiled pattern.
RejectFilters ==
    {[type |-> "object", cond |-> NoObject], [type |-> "search", cond |-> NoObject]}

\* node.chain(FilterChainable(filter_inst))
BuildChain(p, filter_inst) ==
    Return(Built("", Chainable_chain(p, FilterChainable_init(filter_inst))), p, FALSE, <<>>)

NextReject ==
    \/ \E b \in BOOLEAN : Unlisted /\ SetZeroBased(b)
    \/ \E p \in 1..Len(nodes), item \in RejectItems :
          Len(nodes) < MaxNodes /\ BuildTransform(p, item)
    \/ \E p \in 1..Len(nodes), filter_inst \in RejectFilters :
          Len(nodes) < MaxNodes /\ BuildChain(p, filter_inst)
    \/ \E n \in 1..Len(nodes) : ListNode(n)

SpecReject == InitPipe /\ [][NextReject]_vars

\* -- one sort, filter, cut or reduce; the setting changes at any time
BaseSpecs == {IntSpec(1), IntSpec(2)}

\* A builder returns to a caller that notes the setting in force at the call.
BuildUnder(b, specs) == Return(b, 1, zero_based, specs)

NextBase ==
    \/ \E b \in BOOLEAN : SetZeroBased(b)
    \/ \E spec \in BaseSpecs :
          Len(nodes) = 1 /\ BuildUnder(Chainable_sort(1, <<spec>>, FALSE), <<spec>>)
    \/ \E spec \in BaseSpecs, op \in {"eq", "gt"}, value \in Fields :
          Len(nodes) = 1 /\ BuildUnder(Chainable_filter(1, spec, op, value), <<spec>>)
    \/ \E spec \in BaseSpecs :
          Len(nodes) = 1 /\ BuildUnder(Chainable_cut(1, <<spec>>, zero_based), <<spec>>)
    \/ \E spec \in BaseSpecs :
          Len(nodes) = 1 /\ BuildUnder(Chainable_reduce(1, "Uniq", <<spec>>), <<spec>>)
    \/ \E n \in 1..Len(nodes) : ListNode(n)

SpecBase == InitPipe /\ [][NextBase]_vars

\* -- a Cond whose attributes are replaced after its function was generated
CondSpecs == {IntSpec(1), IntSpec(2)}
CondOps == {"eq", "ne", "lt"}
CondObjects == {Cond_init(f, op, v) : f \in CondSpecs, op \in CondOps, v \in Fields}

\* The records the predicates are called with: two fields, each a value.
CondRecs == [1..2 -> Fields]

\* The function of Cond.__call__: func1, the function of get_value_func it
\* closes over, and beside it the attributes the object had when it was
\* generated.
Predicate(o, zb) ==
    [func1 |-> Generate(o, zb), field |-> o.args[1], op |-> o.op, value |-> o.value]

\* A faulty variant: the function keeps a copy of the object as it was when
\* the function was generated.
Cond_self_copy(p) == [obj EXCEPT !.op = p.op, !.value = p.value]

\* The self the function of Cond.__call__ closes over: the object, not a copy.
Cond_self(p) == obj

InitCond ==
    /\ zero_based = FALSE
    /\ obj \in CondObjects
    /\ accs = {}
    /\ applied = NoApplied
    /\ NoTraversal
    /\ NoBuilding

\* func = c()
GeneratePredicate ==
    /\ accs = {}
    /\ accs' = {Predicate(obj, zero_based)}
    /\ UNCHANGED <<zero_based, traversal, building, obj, applied>>

\* c.op = op
SetOp(op) ==
    /\ obj' = [obj EXCEPT !.op = op]
    /\ UNCHANGED <<zero_based, traversal, building, accs, applied>>

\* c.value = value
SetValue(value) ==
    /\ obj' = [obj EXCEPT !.value = value]
    /\ UNCHANGED <<zero_based, traversal, building, accs, applied>>

\* c.field = field
SetField(field) ==
    /\ obj' = [obj EXCEPT !.args = <<field>>]
    /\ UNCHANGED <<zero_based, traversal, building, accs, applied>>

\* func(rec)
CallPredicate(p, rec) ==
    /\ p \in accs
    /\ LET got == Cond_func(Cond_self(p), p.func1.args[1], List(rec))
       IN  applied' = [called |-> TRUE, acc |-> p, rec |-> rec, now |-> zero_based,
                       res |-> Outcome(got.raised, Scalar(got.keep))]
    /\ UNCHANGED <<zero_based, traversal, building, obj, accs>>

NextCond ==
    \/ \E b \in BOOLEAN : SetZeroBased(b)
    \/ GeneratePredicate
    \/ \E op \in CondOps : SetOp(op)
    \/ \E value \in Fields : SetValue(value)
    \/ \E field \in CondSpecs : SetField(field)
    \/ \E p \in accs, rec \in CondRecs : CallPredicate(p, rec)

SpecCond == InitCond /\ [][NextCond]_vars

\* ------------------------------------------------ generators, step by step
\* Three more specifications: a chain is given, generators are made of its
\* nodes by iter() and advanced by next(), one record at a time.

\* What advancing a generator leaves alone.
settled == <<zero_based, traversal_of_target, building, access>>

\* iter(node n), kept by the consumer in slot k.
Begin(k, n) ==
    /\ its[k].st = "none"
    /\ its' = [its EXCEPT ![k] = NewIt(n)]
    /\ UNCHANGED <<settled, iterable, verbose, header_records, shown>>

\* next() on the generator in slot k.
StepNext(k) ==
    /\ its[k].st \in {"created", "suspended"}
    /\ LET t == It_next(its[k], nodes, iterable, zero_based)
       IN  /\ its' = [its EXCEPT ![k] = t]
           /\ header_records' = IF its[k].fp = "none" /\ t.fp # "none"
                                 THEN Csv_headers(nodes[1].kind, header_records)
                                 ELSE header_records
    /\ UNCHANGED <<settled, iterable, verbose, shown>>

\* The consumer stops asking and lets go of the generator in slot k.
Abandon(k) ==
    /\ its[k].st \in {"created", "suspended"}
    /\ its' = [its EXCEPT ![k] = It_abandon(its[k])]
    /\ UNCHANGED <<settled, iterable, verbose, header_records, shown>>

\* The garbage collector finalizes a generator nothing refers to.
Collect(k) ==
    /\ its[k].st \in {"abandoned", "error"}
    /\ its' = [its EXCEPT ![k] = It_collect(its[k])]
    /\ UNCHANGED <<settled, iterable, verbose, header_records, shown>>

\* A chain is given: no builder is called, nothing is listed.
InitChain(h) ==
    /\ zero_based = FALSE
    /\ nodes = h
    /\ listed = [n \in 1..Len(h) |-> NotListed]
    /\ built = NoBuilt
    /\ ran = Idle
    /\ NoGenerator
    /\ NoAccess

\* -- one generator of a filter or of a transform; every input
StepNodes ==
    {Chainable_filter(1, field, op, value).node :
        field \in {IntSpec(1), IntSpec(3)}, op \in Ops, value \in Fields}
    \cup {Chainable_cut(1, params, FALSE).node : params \in {<<IntSpec(1)>>, <<IntSpec(3)>>}}
    \cup {Chainable_transform(1, item).node :
             item \in {[type |-> "function", fn |-> "reversed", args |-> <<>>],
                       [type |-> "function", fn |-> "div", args |-> <<>>]}}

InitStep ==
    /\ iterable \in Inputs
    /\ \E node \in StepNodes : InitChain(<<IterReader_init, node>>)

NextStep ==
    \/ Begin(1, 2)
    \/ StepNext(1)
    \/ Abandon(1)

SpecStep == InitStep /\ [][NextStep]_vars

\* -- two generators at once: of one reduce node, or of two children of the
\* source; every input
TwoNodes ==
    {Chainable_reduce(1, cls, params).node :
        cls \in Classes, params \in {<<IntSpec(1)>>, <<IntSpec(3)>>}}
    \cup {Chainable_filter(1, IntSpec(1), "gt", 1).node,
          Chainable_cut(1, <<IntSpec(1)>>, FALSE).node}

TwoChains ==
    {<<IterReader_init, node>> : node \in {m \in TwoNodes : m.kind = "ReduceChainable"}}
    \cup {<<IterReader_init, c[1], c[2]>> :
             c \in {d \in TwoNodes \X TwoNodes : d[1] # d[2]}}

InitTwo ==
    /\ iterable \in Inputs
    /\ \E h \in TwoChains : InitChain(h)

NextTwo ==
    \/ Begin(1, 2)
    \/ Begin(2, Len(nodes))
    \/ \E k \in 1..2 : StepNext(k)

SpecTwo == InitTwo /\ [][NextTwo]_vars

\* -- a source of any class, with or without a transform; show(), head(),
\* count() and one generator advanced by hand
MaxRows == 7

\* The files: up to MaxRows rows <<1, 1>>, <<1, 2>>, ...
ShowInputs == {[i \in 1..n |-> <<1, i>>] : n \in 0..MaxRows}

ShowSources == {IterReader_init, FileReader_init, CsvReader_init}

\* The source alone, or a transform on it: Reformat, or a function that
\* raises on every record.
ShowChains ==
    {<<src>> : src \in ShowSources}
    \cup {<<src, Chainable_transform(1, item).node>> :
             src \in ShowSources,
             item \in {[type |-> "Reformat", fn |-> "none", args |-> <<>>],
                       [type |-> "function", fn |-> "div", args |-> <<>>]}}

InitShow ==
    /\ iterable \in ShowInputs
    /\ \E h \in ShowChains : InitChain(h)

\* set_verbose(b)
SetVerbose(b) ==
    /\ verbose' = b
    /\ UNCHANGED <<settled, iterable, header_records, its, shown>>

\* A call of show(), head() or count() on node n: under _verbose it makes a
\* generator t of the node, kept here in slot 2, and runs it.
Diagnostic(op, n, t, printed) ==
    IF ~verbose
    THEN /\ shown' = Shown(op, n, FALSE, <<>>, TRUE)
         /\ its' = [its EXCEPT ![2] = NoIt]
         /\ UNCHANGED <<settled, iterable, verbose, header_records>>
    ELSE /\ shown' = Shown(op, n, TRUE, printed, t.st # "error")
         /\ its' = [its EXCEPT ![2] = t]
         /\ header_records' = IF t.fp # "none"
                               THEN Csv_headers(nodes[1].kind, header_records)
                               ELSE header_records
         /\ UNCHANGED <<settled, iterable, verbose>>

ShowNode(n) ==
    LET t == Chainable_show(n, nodes, iterable, zero_based)
    IN  Diagnostic("show", n, t, t.got)

HeadNode(n) ==
    LET t == Chainable_head(n, nodes, iterable, zero_based)
    IN  Diagnostic("head", n, t, t.got)

CountNode(n) ==
    LET t == Chainable_count(n, nodes, iterable, zero_based)
    IN  Diagnostic("count", n, t, IF t.st = "error" THEN <<>> ELSE <<Len(t.got)>>)

NextShow ==
    \/ \E b \in BOOLEAN : SetVerbose(b)
    \/ ShowNode(Len(nodes))
    \/ HeadNode(Len(nodes))
    \/ CountNode(Len(nodes))
    \/ Begin(1, Len(nodes))
    \/ StepNext(1)
    \/ Abandon(1)
    \/ \E k \in 1..2 : Collect(k)

SpecShow == InitShow /\ [][NextShow]_vars

\* ============================================================ properties
\* The traversal of the reduce node has ended normally.
ReduceDone == target = "reduce" /\ gen.pc = "done"

\* The keys of the records the reduce node's parent yields, when no key fails.
KeysOk(f) == \A i \in 1..Len(f.parent) : ~Key_func_raises(f.key_func, f.parent[i])
Keys(f) == [i \in 1..Len(f.parent) |-> Key_func(f.key_func, f.parent[i])]

\* The upstream is sorted non-decreasing by the reduction key.
UpstreamSorted(f) ==
    /\ KeysOk(f)
    /\ \A i \in 1..(Len(f.parent) - 1) : ~ListLT(Keys(f)[i + 1], Keys(f)[i])

\* The maximal runs of consecutive equal keys: where they start, how many
\* they are, where the g-th one starts and how long it is.
RunStarts(ks) == {i \in 1..Len(ks) : i = 1 \/ ks[i] # ks[i - 1]}
NumRuns(ks) == Cardinality(RunStarts(ks))
RunStart(ks, g) ==
    CHOOSE i \in RunStarts(ks) : Cardinality({j \in RunStarts(ks) : j <= i}) = g
RunSize(ks, g) ==
    (IF g = NumRuns(ks) THEN Len(ks) + 1 ELSE RunStart(ks, g + 1)) - RunStart(ks, g)

RECURSIVE SumTo(_, _)
SumTo(f, n) == IF n = 0 THEN 0 ELSE f[n] + SumTo(f, n - 1)

CallsOf(f, op) == SelectSeq(f.calls, LAMBDA c : c.op = op)

\* The last reduce call made so far.
LastReduce(f) == CallsOf(f, "reduce")[Len(CallsOf(f, "reduce"))]

\* C1 as stated: for every upstream sorted by the reduction key, the empty one
\* included, a traversal of the reduce node emits as many records as the
\* upstream has maximal runs of equal keys.
C1_Claimed ==
    (ReduceDone /\ UpstreamSorted(gen)) => Len(out) = NumRuns(Keys(gen))

\* C1 as amended: for every non-empty upstream sorted by the reduction key a
\* traversal of the reduce node emits as many records as the upstream has
\* maximal runs of equal keys; for the empty upstream it emits one record.
C1_RunsEmitted ==
    (ReduceDone /\ UpstreamSorted(gen)) =>
        Len(out) = IF gen.parent = <<>> THEN 1 ELSE NumRuns(Keys(gen))

C1_Witness ==
    /\ ReduceDone
    /\ UpstreamSorted(gen)
    /\ Len(gen.parent) = 3
    /\ NumRuns(Keys(gen)) = 2
    /\ Len(out) = 2

\* The records reduce(UniqCount, K) is to emit for the keys ks: one per run.
CountRecords(ks) ==
    [g \in 1..NumRuns(ks) |-> <<List(ks[RunStart(ks, g)]), "count", RunSize(ks, g)>>]

\* The rows [["A",1],["A",2],["B",3]] (A is 1, B is 2) keyed on their first
\* field and reduced with UniqCount.
ExampleRows == <<<<1, 1>>, <<1, 2>>, <<2, 3>>>>
ExampleDone ==
    /\ ReduceDone
    /\ transform_class = "UniqCount"
    /\ gen.parent = ExampleRows
    /\ gen.key_func = <<0>>

\* C2 as stated: the example rows give [["A","count",2],["B","count",1]],
\* records whose first field is the key field's value itself.
C2_Claimed ==
    ExampleDone =>
        out = << <<[t |-> "scalar", v |-> <<1>>], "count", 2>>,
                 <<[t |-> "scalar", v |-> <<2>>], "count", 1>> >>

\* C2 as amended: for every non-empty upstream sorted by key K,
\* reduce(UniqCount, K) emits, in group order, one record [key, "count", n]
\* per group, key being the group's key (the list of the key fields' values)
\* and n the number of records of the group; the counts sum to the input
\* length; the example rows give [[["A"],"count",2],[["B"],"count",1]].
C2_Counts ==
    /\ (ReduceDone /\ transform_class = "UniqCount" /\ UpstreamSorted(gen)
            /\ gen.parent # <<>>) =>
          /\ out = CountRecords(Keys(gen))
          /\ SumTo([g \in 1..Len(out) |-> out[g][3]], Len(out)) = Len(gen.parent)
    /\ ExampleDone =>
          out = << <<List(<<1>>), "count", 2>>, <<List(<<2>>), "count", 1>> >>

C2_Witness == ExampleDone /\ Len(out) = 2

\* The record the running reduce generator is about to pull has a key
\* strictly less than the key of the group in progress.
NextIsLess ==
    /\ target = "reduce"
    /\ gen.pc = "loop"
    /\ gen.pos < Len(gen.parent)
    /\ gen.prev_key # None
    /\ ~Key_func_raises(gen.key_func, gen.parent[gen.pos + 1])
    /\ ListLT(Key_func(gen.key_func, gen.parent[gen.pos + 1]), gen.prev_key.v)

\* The record the reduce generator pulled last was less than the group's key.
Dropped ==
    /\ target = "reduce"
    /\ gen.pc = "loop"
    /\ gen.curr_key # None
    /\ ListLT(gen.curr_key.v, gen.prev_key.v)

C4_Claimed ==
    [][NextIsLess =>
          /\ gen'.prev_key = gen.prev_key
          /\ gen'.prev_rec = gen.prev_rec
          /\ gen'.prev_rec = LastReduce(gen).b
          /\ gen'.xform = gen.xform
          /\ out' = out]_vars

\* C5 as stated: for a non-empty upstream the final record is output(k, r)
\* with k the last key that received a reduce call and r the last record
\* reduced.
C5_Claimed ==
    (target = "reduce" /\ gen.pc \in {"yield_final", "done"} /\ gen.parent # <<>>) =>
        /\ gen.calls[Len(gen.calls)] = Call("output", LastReduce(gen).a, LastReduce(gen).b)
        /\ out[Len(out)] = Xform_output(gen.xform, LastReduce(gen).a, LastReduce(gen).b)

\* C6: a traversal of the reduce node over an empty upstream emits exactly one
\* record: output is called once, with (None, None), on an aggregator as it
\* was built, no other callback is made, and for UniqCount the record is
\* [None, "count", 0].
C6_EmptySentinel ==
    (ReduceDone /\ gen.parent = <<>>) =>
        /\ gen.calls = <<Call("output", None, None)>>
        /\ gen.xform = Xform_new(transform_class)
        /\ Len(out) = 1
        /\ transform_class = "Uniq" => out[1] = None
        /\ transform_class = "UniqCount" => out[1] = <<None, "count", 0>>

C6_Witness ==
    /\ ReduceDone
    /\ gen.parent = <<>>
    /\ transform_class = "UniqCount"
    /\ out = << <<None, "count", 0>> >>

\* C7: over a complete traversal of a sorted upstream of n >= 1 records in g
\* groups the aggregator gets n reduce calls, one per record in order with the
\* record's key, g-1 key_change calls, one per group boundary with (previous
\* key, new key), and g output calls.
C7_CallCounts ==
    (ReduceDone /\ UpstreamSorted(gen) /\ gen.parent # <<>>) =>
        LET ks == Keys(gen)
            n == Len(gen.parent)
            g == NumRuns(ks)
        IN  /\ Len(CallsOf(gen, "reduce")) = n
            /\ \A i \in 1..n :
                  CallsOf(gen, "reduce")[i] = Call("reduce", List(ks[i]), List(gen.parent[i]))
            /\ Len(CallsOf(gen, "key_change")) = g - 1
            /\ \A j \in 1..(g - 1) :
                  CallsOf(gen, "key_change")[j] =
                      Call("key_change", List(ks[RunStart(ks, j)]),
                           List(ks[RunStart(ks, j + 1)]))
            /\ Len(CallsOf(gen, "output")) = g

C7_Witness ==
    /\ ReduceDone
    /\ UpstreamSorted(gen)
    /\ Len(gen.parent) = 3
    /\ Len(CallsOf(gen, "reduce")) = 3
    /\ Len(CallsOf(gen, "key_change")) = 1
    /\ Len(CallsOf(gen, "output")) = 2

\* The reduce generator is suspended at the yield of a group boundary.
AtBoundary == target = "reduce" /\ gen.pc = "yield_group"

C9_Claimed ==
    (ReduceDone /\ UpstreamSorted(gen)) =>
        Len(CallsOf(gen, "initialize")) = NumRuns(Keys(gen))

\* C9 as amended: during one traversal over a non-empty upstream initialize is
\* called exactly once, with the first record's key and before the first
\* reduce call; the later groups begin with key_change and no initialize, and
\* over an empty upstream initialize is never called.
C9_InitializeOnce ==
    ReduceDone =>
        IF gen.parent = <<>>
        THEN CallsOf(gen, "initialize") = <<>>
        ELSE /\ CallsOf(gen, "initialize") =
                    <<Call("initialize", List(Keys(gen)[1]), None)>>
             /\ gen.calls[1].op = "initialize"
             /\ gen.calls[2] = Call("reduce", List(Keys(gen)[1]), List(gen.parent[1]))

C9_Witness ==
    /\ ReduceDone
    /\ UpstreamSorted(gen)
    /\ NumRuns(Keys(gen)) = 3
    /\ Len(CallsOf(gen, "initialize")) = 1

\* C10: whatever node of the chain is traversed, a traversal that ends returns
\* what the first traversal begun under the same indexing base returned: the
\* same records in the same order, a length equal to their number, or an
\* exception again.
C10_TraversalsAgree ==
    /\ gen.pc = "done" =>
          /\ first[gen.zb].seen
          /\ ~first[gen.zb].res.raised
          /\ first[gen.zb].res.recs = out
          /\ first[gen.zb].res.len = Len(out)
    /\ gen.pc = "error" =>
          /\ first[gen.zb].seen
          /\ first[gen.zb].res.raised

C10_Witness ==
    /\ ReduceDone
    /\ gen.repeat
    /\ presort
    /\ transform_class = "UniqCount"
    /\ Len(out) = 2
    /\ gen.parent # iterable

\* --------------------------------------------------------------------- C12
\* The offset of an integer spec in a generated accessor.
OffsetUnder(spec, zb) == IF zb THEN spec.i ELSE spec.i - 1

\* What a call of accessor a returns for rec when its offsets are those of the
\* setting it was generated under.
ValueUnder(a, rec) ==
    IF a.of = "Key"
    THEN List([k \in 1..Len(obj.args) |->
                 IF obj.args[k].k = "pair"
                 THEN Cast(PyGet(rec, OffsetUnder(obj.args[k], a.zb)))
                 ELSE PyGet(rec, OffsetUnder(obj.args[k], a.zb))])
    ELSE Scalar(PyGet(rec, OffsetUnder(obj.args[1], a.zb)))

\* C12: the offsets of a generated accessor are those of the indexing base in
\* force when it was generated: an accessor generated under the 0-based
\* setting has offsets one more than one generated from the same object under
\* the 1-based setting, and whatever the setting is when an accessor is
\* called, it reads the fields its own offsets name.
C12_OffsetsFixedAtGeneration ==
    /\ \A a \in accs : \A k \in 1..Len(a.args) :
          a.args[k].k = "int" => a.args[k].i = OffsetUnder(obj.args[k], a.zb)
    /\ \A a, b \in accs :
          ~a.zb /\ b.zb /\ a.raised = "" /\ b.raised = ""
          => \A k \in 1..Len(a.args) :
                a.args[k].k = "int" => b.args[k].i = a.args[k].i + 1
    /\ applied.called /\ applied.res.raised = ""
       => applied.res.value = ValueUnder(applied.acc, applied.rec)

\* Both accessors exist, and the one generated under the 1-based setting is
\* called under the 0-based one and returns a value.
C12_Witness ==
    /\ \E a, b \in accs : ~a.zb /\ b.zb /\ a.raised = "" /\ b.raised = "" /\ a.args # <<>>
    /\ applied.called
    /\ ~applied.acc.zb
    /\ applied.now
    /\ applied.res.raised = ""
    /\ applied.acc.args # <<>>

\* --------------------------------------------------------------------- C14
\* C14, as claimed: the function generated by a Key with no field spec
\* returns, under either indexing base, the whole record it is called with.
C14_Claimed ==
    applied.called /\ applied.acc.of = "Key" /\ obj.args = <<>>
    => applied.res.raised = "" /\ applied.res.value = List(applied.rec)

\* --------------------------------------------------------------------- C20
\* The call reads a None field: every spec is an index in range, and one of
\* the fields read is None.
ReadsNone(a, rec) ==
    /\ \A k \in 1..Len(a.args) : a.args[k].k = "int" /\ InRange(rec, a.args[k].i)
    /\ \E k \in 1..Len(a.args) : IsNone(PyGet(rec, a.args[k].i))

\* C20, as claimed: an accessor generated by a Cond or by a Key that reads a
\* None field raises the error of a missing value and returns nothing.
C20_Claimed ==
    applied.called /\ ReadsNone(applied.acc, applied.rec)
    => applied.res.raised = "RuntimeError: Attempt to return None from rec"

\* --------------------------------------------------------------------- C11
\* C11: whatever builders were called, as long as no node has been listed no
\* record has been pulled from the source and no callback invoked.
C11_BuildingRunsNothing == Unlisted => ran = Idle

\* A chain of MaxNodes nodes over a source that has records, the last node
\* made by cut(), and nothing listed yet.
C11_Witness ==
    /\ Len(nodes) = MaxNodes
    /\ iterable # <<>>
    /\ Unlisted
    /\ built.raised = ""
    /\ built.node.transform_item.fn = "key"
    /\ \E n \in 1..Len(nodes) : nodes[n].kind = "SortChainable"

\* --------------------------------------------------------------------- C13
Range(q) == {q[i] : i \in 1..Len(q)}

\* The sort node of the chain has been listed and has returned records.
SortListed ==
    /\ Len(nodes) = 2
    /\ nodes[2].kind = "SortChainable"
    /\ listed[2].listed
    /\ listed[2].raised = ""

\* The key the sort node orders a record by, under the setting it was listed
\* under: the fields its specs name, or the whole record.
SortKeyOf(rec) ==
    IF nodes[2].key.has
    THEN [k \in 1..Len(nodes[2].key.args) |->
            PyGet(rec, OffsetUnder(nodes[2].key.args[k], listed[2].zb))]
    ELSE rec

ListLE(a, b) == a = b \/ ListLT(a, b)

\* C13: what a sort node yields is a permutation of the records of its
\* parent, in non-decreasing order of the key (non-increasing when reverse),
\* and records of equal key are in the order the parent yielded them in
\* (the second field of a record is the number of its row in the source).
C13_SortedStablePermutation ==
    SortListed =>
        LET recs == [i \in 1..Len(listed[2].recs) |-> listed[2].recs[i].v]
        IN  /\ Len(recs) = Len(iterable)
            /\ Range(recs) = Range(iterable)
            /\ \A i \in 1..(Len(recs) - 1) :
                  IF nodes[2].reverse
                  THEN ListLE(SortKeyOf(recs[i + 1]), SortKeyOf(recs[i]))
                  ELSE ListLE(SortKeyOf(recs[i]), SortKeyOf(recs[i + 1]))
            /\ \A i, j \in 1..Len(recs) :
                  i < j /\ SortKeyOf(recs[i]) = SortKeyOf(recs[j]) => recs[i][2] < recs[j][2]

\* A descending sort on a key that put a later record first and left two
\* records of equal key.
C13_Witness ==
    /\ SortListed
    /\ nodes[2].reverse
    /\ nodes[2].key.has
    /\ \E i, j \in 1..Len(listed[2].recs) :
          /\ i < j
          /\ SortKeyOf(listed[2].recs[i].v) = SortKeyOf(listed[2].recs[j].v)
    /\ \E i \in 1..(Len(listed[2].recs) - 1) :
          listed[2].recs[i].v[2] > listed[2].recs[i + 1].v[2]

\* --------------------------------------------------------------------- C15
\* Two filters on the source, the second the complement of the first, both
\* listed under the same setting.
ComplementsListed ==
    /\ Len(nodes) = 3
    /\ nodes[3].parent = 1
    /\ nodes[3].filter_inst.cond.op = Complement(nodes[2].filter_inst.cond.op)
    /\ nodes[3].filter_inst.cond.args = nodes[2].filter_inst.cond.args
    /\ nodes[3].filter_inst.cond.value = nodes[2].filter_inst.cond.value
    /\ listed[2].listed
    /\ listed[3].listed
    /\ listed[2].zb = listed[3].zb

\* C15: a filter and its complement (eq/ne, lt/gte, gt/lte on the same field
\* and constant) split the input: the two counts add up to the count of the
\* input, and every record is in one output and not in the other.  When the
\* field cannot be read, both raise.
C15_ComplementsPartition ==
    ComplementsListed
    => /\ listed[2].raised = listed[3].raised
       /\ listed[2].raised = ""
          => /\ Len(listed[2].recs) + Len(listed[3].recs) = Len(iterable)
             /\ \A i \in 1..Len(iterable) :
                   List(iterable[i]) \in Range(listed[2].recs)
                   <=> List(iterable[i]) \notin Range(listed[3].recs)

\* Both outputs have a record, and the filter is a gte.
C15_Witness ==
    /\ ComplementsListed
    /\ nodes[2].filter_inst.cond.op = "gte"
    /\ listed[2].recs # <<>>
    /\ listed[3].recs # <<>>

\* --------------------------------------------------------------------- C16
\* The predicate of filter node n is true of rec, under the setting the node
\* was listed under.
Satisfies(n, zb, rec) ==
    LET cond == nodes[n].filter_inst.cond
        i == OffsetUnder(cond.args[1], zb)
    IN  InRange(rec, i) /\ Op_apply(cond.op, PyGet(rec, i), cond.value)

\* The filters a record has to pass to come out of filter node n.
RECURSIVE Passes(_, _, _)
Passes(n, zb, rec) ==
    IF n = 1 THEN TRUE ELSE Passes(nodes[n].parent, zb, rec) /\ Satisfies(n, zb, rec)

\* C16: what a filter node yields is exactly the records of its parent that
\* its predicate is true of, each once and in the parent's order; a filter
\* on a filter yields exactly the records both predicates are true of.
C16_FilterYieldsMatches ==
    \A n \in 2..Len(nodes) :
        listed[n].listed /\ listed[n].raised = ""
        => listed[n].recs
           = SelectSeq([i \in 1..Len(iterable) |-> List(iterable[i])],
                       LAMBDA r : Passes(n, listed[n].zb, r.v))

\* A filter on a filter: the first drops a record, the second drops a record
\* of those the first passed, and a record comes out.
C16_Witness ==
    /\ Len(nodes) = 3
    /\ nodes[3].parent = 2
    /\ listed[3].listed
    /\ listed[3].raised = ""
    /\ listed[3].recs # <<>>
    /\ \E i \in 1..Len(iterable) : ~Satisfies(2, listed[3].zb, iterable[i])
    /\ \E i \in 1..Len(iterable) :
          Satisfies(2, listed[3].zb, iterable[i]) /\ ~Satisfies(3, listed[3].zb, iterable[i])

\* --------------------------------------------------------------------- C17
\* The chain is a cut on the source; it has been listed under the setting
\* cut() was called under.
CutListed ==
    /\ Len(nodes) = 2
    /\ nodes[2].kind = "TransformChainable"
    /\ listed[2].listed
    /\ built.zb = listed[2].zb

\* What the function generated by Key(specs) under that setting does with the
\* i-th record of the source.
Projected(i) == Apply(Generate(Key_init(built.specs), listed[2].zb), iterable[i])

\* C17: with the setting unchanged, list(node.cut(specs)) is the list of what
\* the function generated by Key(specs) returns for each record of node, in
\* order; it raises what that function raises first.
C17_CutIsProjection ==
    CutListed =>
        LET bad == {i \in 1..Len(iterable) : Projected(i).raised # ""}
        IN  IF bad = {}
            THEN /\ listed[2].raised = ""
                 /\ listed[2].recs = [i \in 1..Len(iterable) |-> Projected(i).value]
            ELSE listed[2].raised = Projected(CHOOSE i \in bad : \A j \in bad : i <= j).raised

\* A cut of two fields under the 1-based setting that returned MaxLen records.
C17_Witness ==
    /\ CutListed
    /\ ~listed[2].zb
    /\ Len(built.specs) = 2
    /\ listed[2].raised = ""
    /\ Len(listed[2].recs) = MaxLen

\* --------------------------------------------------------------------- C18
\* C18: a call of a builder that returns adds one node, whose parent is the
\* node the builder was called on, and leaves every node built before as it
\* was: its parent and its parameters.
C18_BuilderAddsChild ==
    [][nodes' # nodes
       => /\ Len(nodes') = Len(nodes) + 1
          /\ SubSeq(nodes', 1, Len(nodes)) = nodes
          /\ built'.p \in 1..Len(nodes)
          /\ nodes'[Len(nodes')].parent = built'.p]_vars

\* Two nodes made by different builders have the same parent.
C18_Witness ==
    \E m, n \in 1..Len(nodes) :
        /\ m < n
        /\ nodes[m].parent = nodes[n].parent
        /\ nodes[m].parent >= 1
        /\ nodes[m].kind # nodes[n].kind

\* --------------------------------------------------------------------- C19
\* C19, as claimed: no call of a builder raises.
C19_Claimed == built.raised = ""

\* --------------------------------------------------------------------- C21
\* The object has a field spec that is neither an index nor a tuple.
UnsupportedSpec(o) == \E k \in 1..Len(o.args) : o.args[k].k = "str"

\* C21, as claimed: for a Key and for a Cond alike, generating an accessor
\* from an object with an unsupported field spec does not fail, and every
\* call of the accessor raises the error of an unsupported field spec.
C21_Claimed ==
    UnsupportedSpec(obj)
    => /\ \A a \in accs : a.raised = ""
       /\ applied.called => applied.res.raised = "RuntimeError: Can't handle item"

\* --------------------------------------------------------------------- C22
\* The call reads one field through a tuple (index, cast): the field is in
\* range and the cast has a value for it.
ReadsCast(a, rec) ==
    /\ a.args # <<>>
    /\ a.args[1].k = "pair"
    /\ \A k \in 1..Len(a.args) :
          /\ a.args[k].k \in {"int", "pair"}
          /\ InRange(rec, a.args[k].i)
          /\ ~IsNone(PyGet(rec, a.args[k].i))

\* C22, as claimed: an accessor generated by a Key or by a Cond from a tuple
\* (index, cast) returns the cast of the field.
C22_Claimed ==
    applied.called /\ ReadsCast(applied.acc, applied.rec)
    => /\ applied.res.raised = ""
       /\ applied.res.value.v[1] = Cast(PyGet(applied.rec, applied.acc.args[1].i))

\* --------------------------------------------------------------------- C23
\* C23, as claimed: a listed transform node whose item is neither a function
\* nor Reformat or a subclass of it raised the error of an unsupported
\* transform.
C23_Claimed ==
    \A n \in 1..Len(nodes) :
       /\ nodes[n].kind = "TransformChainable"
       /\ nodes[n].transform_item.type \notin {"function", "Reformat"}
       /\ listed[n].listed
       => listed[n].raised = "RuntimeError: compatible only with a function or Reformat"

\* --------------------------------------------------------------------- C24
\* A filter node constructed with something that is neither a Cond nor callable.
Unusable(n) ==
    /\ nodes[n].kind = "FilterChainable"
    /\ nodes[n].filter_inst.type \notin {"Cond", "search"}

\* C24: a filter node given neither a Cond nor a callable is constructed and
\* chained without an error, and listing it raises the error of an
\* unsupported predicate and yields no record, whatever its parent yields.
C24_FilterRejects ==
    /\ built.node.kind = "FilterChainable" => built.raised = ""
    /\ \A n \in 1..Len(nodes) :
          Unusable(n) /\ listed[n].listed
          => /\ listed[n].raised
                  = "RuntimeError: only works with a Cond instance or re.compile.search"
             /\ listed[n].recs = <<>>

\* Such a filter over a source of MaxLen records has been listed.
C24_Witness ==
    /\ Len(iterable) = MaxLen
    /\ \E n \in 1..Len(nodes) : Unusable(n) /\ nodes[n].parent = 1 /\ listed[n].listed

\* --------------------------------------------------------------------- C28
\* The rows of the source the predicate of the filter of generator t is true
\* of, and the j-th of them.
Matching(t) == {i \in 1..Len(iterable) : Satisfies(t.n, t.zb, iterable[i])}
NthMatching(t, j) ==
    CHOOSE i \in Matching(t) : Cardinality({m \in Matching(t) : m <= i}) = j

\* The records a generator has to have pulled from the source for its
\* consumer to have what it received.
Demand(t) ==
    IF t.got = <<>> THEN 0
    ELSE IF nodes[t.n].kind = "TransformChainable" THEN Len(t.got)
    ELSE NthMatching(t, Len(t.got))

\* C28: a generator of a transform node that has handed j records to its
\* consumer has pulled j records from its parent, one of a filter node has
\* pulled the records up to the j-th its predicate is true of, and none has
\* pulled anything before the first request; a generator its consumer has
\* let go of has pulled no more than that.
C28_PullsOnDemand ==
    its[1].st \in {"created", "suspended", "abandoned"} => its[1].pos = Demand(its[1])

\* A filter's generator was let go of after its first record, the second of
\* the source, with a record left in the source.
C28_Witness ==
    /\ its[1].st = "abandoned"
    /\ nodes[its[1].n].kind = "FilterChainable"
    /\ Len(its[1].got) = 1
    /\ its[1].pos = 2
    /\ Len(iterable) > 2

\* --------------------------------------------------------------------- C29
\* What the generator t yields when it is the only one and runs to its end.
Alone(t) == Chainable_iter(nodes, t.n, iterable, t.zb)

IsPrefix(a, b) == Len(a) <= Len(b) /\ a = SubSeq(b, 1, Len(a))

\* C29: two generators, of one reduce node or of two children of one source,
\* advanced in any interleaving: what each has yielded so far is the
\* beginning of what it yields alone, and all of it once it has ended; when it
\* raises, it raises what it raises alone, after the same records.
C29_Independent ==
    \A k \in 1..2 :
       /\ its[k].st = "suspended" => IsPrefix(its[k].got, Alone(its[k]).out)
       /\ its[k].st = "done" => its[k].got = Alone(its[k]).out /\ Alone(its[k]).err = ""
       /\ its[k].st = "error"
          => its[k].got = Alone(its[k]).out /\ Alone(its[k]).err = its[k].err

\* Two generators of one reduce node that counts, each suspended after a
\* group, at different records of the source.
C29_Witness ==
    /\ its[1].st = "suspended" /\ its[2].st = "suspended"
    /\ its[1].n = its[2].n
    /\ nodes[its[1].n].transform_class = "UniqCount"
    /\ its[1].got # <<>> /\ its[2].got # <<>>
    /\ its[1].pos # its[2].pos

\* --------------------------------------------------------------------- C25
\* C25, as claimed: a generator that has ended, by exhaustion or by an
\* exception, or that its consumer has let go of, has no open handle.
C25_Claimed ==
    \A k \in 1..2 :
       its[k].st \in {"done", "error", "abandoned", "collected"} => its[k].fp # "open"

\* --------------------------------------------------------------------- C26
\* A call of show(), head() or count() was made under _verbose and returned.
Diagnosed == shown.op # "none" /\ shown.verbose /\ shown.returned

\* The generator the call made ran until the node had no record left.
Exhaustive == its[2].st = "done" /\ its[2].pos = Len(iterable)

\* C26, as claimed: under _verbose each of show(), head() and count() runs
\* one generator of its node to exhaustion before it returns the node.
C26_Claimed == Diagnosed => Exhaustive

\* C26: under _verbose, show() and count() run one generator of the node to
\* exhaustion before they return the node; head() runs one to exhaustion
\* when the node yields fewer than HeadLimit records, and otherwise lets go of
\* it after its HeadLimit-th record.
C26_Diagnostics ==
    Diagnosed
    => IF shown.op = "head" /\ Len(iterable) >= HeadLimit
       THEN /\ its[2].st \in {"abandoned", "collected"}
            /\ its[2].pos = HeadLimit
            /\ Len(shown.printed) = HeadLimit
       ELSE Exhaustive

\* head() has returned from a node that yields more than HeadLimit records.
C26_Witness ==
    /\ Diagnosed
    /\ shown.op = "head"
    /\ Len(iterable) > HeadLimit
    /\ Len(shown.printed) = HeadLimit

\* --------------------------------------------------------------------- C27
\* C27, as claimed: an accessor generated by a Cond under the initial setting
\* from the index n returns the field at the 0-based offset n of a record.
C27_Claimed ==
    /\ applied.called
    /\ applied.acc.of = "Cond"
    /\ ~applied.acc.zb
    /\ obj.args[1].k = "int"
    /\ obj.args[1].i < Len(applied.rec)
    /\ ~IsNone(applied.rec[obj.args[1].i + 1])
    => /\ applied.res.raised = ""
       /\ applied.res.value = Scalar(applied.rec[obj.args[1].i + 1])

\* --------------------------------------------------------------------- C30
\* The node built on the source has been listed.
BaseListed == Len(nodes) = 2 /\ listed[2].listed

\* The setting that decides the field the node reads: for cut the one in
\* force when it was built, for sort, filter and reduce the one in force when
\* the listing began.
BoundUnder ==
    IF nodes[2].kind = "TransformChainable" THEN built.zb ELSE listed[2].zb

\* The field of rec the spec the node was built with names under that setting.
BaseOffset == OffsetUnder(built.specs[1], BoundUnder)
BaseField(rec) == PyGet(rec, BaseOffset)

\* What the listing of the node is when it reads that field.
BaseListing(recs) ==
    CASE nodes[2].kind = "TransformChainable" ->
           recs = [i \in 1..Len(iterable) |-> List(<<BaseField(iterable[i])>>)]
      [] nodes[2].kind = "FilterChainable" ->
           recs = SelectSeq([i \in 1..Len(iterable) |-> List(iterable[i])],
                            LAMBDA r : Op_apply(nodes[2].filter_inst.cond.op, BaseField(r.v),
                                                nodes[2].filter_inst.cond.value))
      [] nodes[2].kind = "SortChainable" ->
           /\ Len(recs) = Len(iterable)
           /\ Range(recs) = {List(iterable[i]) : i \in 1..Len(iterable)}
           /\ \A i \in 1..(Len(recs) - 1) : BaseField(recs[i].v) <= BaseField(recs[i + 1].v)
      [] nodes[2].kind = "ReduceChainable" ->
           /\ recs # <<>>
           /\ iterable # <<>>
              => /\ recs[Len(recs)] = List(<<BaseField(iterable[Len(iterable)])>>)
                 /\ Range(recs) \subseteq {List(<<BaseField(iterable[i])>>) :
                                              i \in 1..Len(iterable)}

\* C30: cut reads the fields its specs name under the setting in force when
\* cut() was called, whatever the setting is when the node is listed; sort,
\* filter and reduce read the fields their specs name under the setting in
\* force when the listing begins, whatever it was when they were built or
\* listed before: a field one further under the 0-based setting than under
\* the 1-based one.
C30_BindingTimes ==
    BaseListed =>
        IF iterable # <<>> /\ ~InRange(iterable[1], BaseOffset)
        THEN listed[2].raised = "IndexError"
        ELSE listed[2].raised = "" /\ BaseListing(listed[2].recs)

\* A sort was built under one setting and listed under the other, which put
\* the records in another order than the source's; the setting has changed
\* again since.
C30_Witness ==
    /\ BaseListed
    /\ built.zb # listed[2].zb
    /\ listed[2].zb # zero_based
    /\ listed[2].raised = ""
    /\ Len(iterable) = MaxLen
    /\ nodes[2].kind = "SortChainable"
    /\ listed[2].recs # [i \in 1..Len(iterable) |-> List(iterable[i])]

\* --------------------------------------------------------------------- C31
\* What op and value make of the field of rec that the spec the predicate was
\* generated from names under the setting it was generated under.
Verdict(p, op, value, rec) ==
    LET offset == OffsetUnder(p.field, p.func1.zb)
    IN  IF ~InRange(rec, offset) THEN Outcome("IndexError", Scalar(FALSE))
        ELSE Outcome("", Scalar(Op_apply(op, PyGet(rec, offset), value)))

====
